---- MODULE Spec2Model ----
(***************************************************************************)
(* Model of @epicurrents/onnx-service: the controller facade               *)
(* (GenericOnnxService) and the run executor (onnx.worker.ts), which talk   *)
(* over two FIFO message channels.                                          *)
(*                                                                          *)
(* One action is one JavaScript task: an API call of the caller, a timer    *)
(* callback, the delivery of one message, or the completion of one awaited  *)
(* external operation of the worker.  A task runs its synchronous code and  *)
(* then every microtask (promise continuation) it made runnable.            *)
(*                                                                          *)
(* The commission and waiter registries, _setPropertyValue and              *)
(* validateCommissionProps belong to @epicurrents/core, which is not among  *)
(* the sources; they are modelled from the specification (sections 4.1 and  *)
(* 4.2).  Messages are taken to carry the properties the worker validates   *)
(* (path, dimensions, samples), so validation accepts them.                 *)
(***************************************************************************)
EXTENDS Integers, Sequences, FiniteSets, TLC

VARIABLES
    svc,        \* the facade object: its fields and the registries it owns
    rets,       \* what the API calls that returned in the last task returned
    toWorker,   \* messages posted by the facade, not yet handled by the worker
    toService,  \* messages posted by the worker, not yet handled by the facade
    RUN,        \* the worker's RUN object
    heap,       \* the result objects the entries of RUN.results refer to
    awaits,     \* the worker's suspended calls: what each awaits
    inferred,   \* sample indices on which session.run was invoked, in order
    task        \* the task that ran last: the call made or the event handled

vars == <<svc, rets, toWorker, toService, RUN, heap, awaits, inferred, task>>

\* Commissions the caller may still start are capped by the request number.
MaxRn == 5
\* Largest batch the caller passes to run().
MaxSamples == 2
\* Automatic resumes that may be scheduled at once.
MaxTimers == 1

\* A batch of n samples; a sample is named by its position in the batch.
Batch(n) == [i \in 1..n |-> i]

Null == "null"

\* An inference output: none, or the output of the engine for a sample.
NoValue == [none |-> TRUE, of |-> 0]
Output(sample) == [none |-> FALSE, of |-> sample]

------------------------------------------------------------------------------
(* Facade: registries of @epicurrents/core *)

NoGroup == [active |-> FALSE, pending |-> <<>>]

\* A context: the facade, the messages and returns of the running task, and
\* the microtasks made runnable and not yet run.
Ctx(s) == [svc |-> s, sent |-> <<>>, rets |-> <<>>, micro |-> <<>>]

\* A call returns.  rn is 0 when the call returns before it awaited anything,
\* and the request number of the commission it awaited otherwise; n is the
\* size of the batch a run() was called with.
Ret(c, op, rn, n, val, results) ==
    [c EXCEPT !.rets = Append(@, [op |-> op, rn |-> rn, n |-> n, val |-> val,
                                  results |-> results])]

_initWaiters(c, name) ==
    [c EXCEPT !.svc.waiters[name] = [active |-> TRUE, pending |-> <<>>]]

\* Resolving the joined promises with the outcome makes their continuations
\* runnable.
_notifyWaiters(c, name, outcome) ==
    LET g == c.svc.waiters[name] IN
    IF ~g.active THEN c
    ELSE [c EXCEPT !.svc.waiters[name] = NoGroup,
                   !.micro = @ \o [k \in 1..Len(g.pending) |->
                                     [g.pending[k] EXCEPT !.value = outcome]]]

\* The promise joins the group; cont is the continuation of its awaiter.
awaitAction(c, name, cont) ==
    [c EXCEPT !.svc.waiters[name].pending = Append(@, cont)]

_commissionWorker(c, action, samples) ==
    LET rn == c.svc.nextRn IN
    [c EXCEPT !.svc.commissions = @ \cup {[rn |-> rn, action |-> action, n |-> Len(samples)]},
              !.svc.nextRn = rn + 1,
              !.svc.settles = Append(@, 0),
              !.svc.issued = Append(@, action),
              !.sent = Append(@, [action |-> action, rn |-> rn, samples |-> samples])]

\* The commissions a message settles: the one stored under its action and rn.
_getCommissionForMessage(s, m) ==
    {k \in s.commissions : k.rn = m.rn /\ k.action = m.action}

\* Settling removes the commission and makes the awaiting method runnable.
Settle(c, k, m, how, cont) ==
    [c EXCEPT !.svc.commissions = @ \ {k},
              !.svc.settles[k.rn] = @ + 1,
              !.svc.foreign = @ \/ (k.rn # m.rn),
              !.micro = Append(@, cont @@ [how |-> how, rn |-> k.rn, n |-> k.n])]

_setPropertyValue(c, field, value) ==
    IF field = "isRunInProgress" THEN [c EXCEPT !.svc.isRunInProgress = value]
    ELSE [c EXCEPT !.svc.modelState = value]

------------------------------------------------------------------------------
(* Facade: GenericOnnxService *)

\* runProgress with the operands of the division exchanged.
runProgress_Swapped(s) ==
    IF s.progress.target # 0
    THEN [num |-> s.progress.target, den |-> s.progress.complete]
    ELSE [num |-> 0, den |-> 1]

\* The progress fraction, as numerator and denominator.
runProgress(s) ==
    IF s.progress.target # 0
    THEN [num |-> s.progress.complete, den |-> s.progress.target]
    ELSE [num |-> 0, den |-> 1]

set_isRunInProgress(c, value) ==
    IF value = c.svc.isRunInProgress THEN c
    ELSE _setPropertyValue(c, "isRunInProgress", value)

Service_cancelRun(c) ==
    IF ~c.svc.isRunInProgress THEN Ret(c, "cancelRun", 0, 0, "false", <<>>)
    ELSE LET c1 == set_isRunInProgress(c, FALSE)
             c2 == _notifyWaiters(c1, "run", FALSE)
         IN  _commissionWorker(c2, "cancel", <<>>)

\* resetProgress() without its call of cancelRun().
resetProgress_NoCancel(c) ==
    [c EXCEPT !.svc.progress = [complete |-> 0, target |-> 0]]

resetProgress(c) ==
    LET c1 == IF c.svc.isRunInProgress THEN Service_cancelRun(c) ELSE c
    IN  [c1 EXCEPT !.svc.progress = [complete |-> 0, target |-> 0]]

Service_cancelRun_then(c, t) ==
    Ret(resetProgress(c), "cancelRun", t.rn, 0, t.val, <<>>)

Service_loadModel(c) ==
    LET c1 == _setPropertyValue([c EXCEPT !.svc.failedLoad = FALSE],
                                "modelState", "loading")
        c2 == _initWaiters(c1, "load")
    IN  _commissionWorker(c2, "load-model", <<>>)

Service_loadModel_then(c, t) ==
    IF t.how = "resolved"
    THEN Ret(_notifyWaiters(_setPropertyValue(c, "modelState", "loaded"), "load", TRUE),
             "loadModel", t.rn, 0, t.val, <<>>)
    ELSE Ret(_notifyWaiters(_setPropertyValue([c EXCEPT !.svc.failedLoad = TRUE],
                                              "modelState", "error"), "load", FALSE),
             "loadModel", t.rn, 0, "false", <<>>)

setupWorker(c) == _commissionWorker(c, "setup-worker", <<>>)

setupWorker_then(c, t) ==
    IF t.how = "resolved"
    THEN Ret(_notifyWaiters(c, "init", TRUE), "setupWorker", t.rn, 0, t.val, <<>>)
    ELSE Ret(_notifyWaiters(c, "init", FALSE), "setupWorker", t.rn, 0, "false", <<>>)

resumeRun(c) ==
    IF c.svc.isRunInProgress THEN Ret(c, "resumeRun", 0, 0, "false", <<>>)
    ELSE LET c1 == set_isRunInProgress(c, TRUE)
             c2 == _notifyWaiters(c1, "pause", TRUE)
         IN  _commissionWorker(c2, "resume", <<>>)

resumeRun_then(c, t) == Ret(c, "resumeRun", t.rn, 0, t.val, <<>>)

\* pauseRun without its check of the run flag.
pauseRun_NoGuard(c, duration) ==
    LET c1 == _initWaiters(c, "pause")
        c2 == set_isRunInProgress(c1, FALSE)
        c3 == IF duration # 0 THEN [c2 EXCEPT !.svc.timers = @ + 1] ELSE c2
    IN  _commissionWorker(c3, "pause", <<>>)

pauseRun(c, duration) ==
    IF ~c.svc.isRunInProgress THEN Ret(c, "pauseRun", 0, 0, "false", <<>>)
    ELSE LET c1 == _initWaiters(c, "pause")
             c2 == set_isRunInProgress(c1, FALSE)
             c3 == IF duration # 0 THEN [c2 EXCEPT !.svc.timers = @ + 1] ELSE c2
         IN  _commissionWorker(c3, "pause", <<>>)

pauseRun_then(c, t) == Ret(c, "pauseRun", t.rn, 0, t.val, <<>>)

\* run() without its check of the sample list.
Service_run_proceed_NoEmptyCheck(c, samples) ==
    LET c1 == resetProgress(c)
        c2 == [c1 EXCEPT !.svc.progress.target = Len(samples)]
        c3 == _initWaiters(set_isRunInProgress(c2, TRUE), "run")
    IN  _commissionWorker(c3, "run", samples)

\* run(), from the check of the sample list on (lines 241-257).
Service_run_proceed(c, samples) ==
    IF Len(samples) = 0 THEN Ret(c, "run", 0, 0, "results", <<>>)
    ELSE LET c1 == resetProgress(c)
             c2 == [c1 EXCEPT !.svc.progress.target = Len(samples)]
             c3 == _initWaiters(set_isRunInProgress(c2, TRUE), "run")
         IN  _commissionWorker(c3, "run", samples)

\* The request number of the load-model commission issued last: the load
\* that is the active phase while the load group exists.
LastLoad(s) ==
    CHOOSE i \in 1..Len(s.issued) :
        /\ s.issued[i] = "load-model"
        /\ \A j \in (i + 1)..Len(s.issued) : s.issued[j] # "load-model"

\* The continuation of an awaiter of modelLoadedPromise: kind names the
\* awaiter, load the active load when the promise was obtained (0: none) and
\* value what the promise resolves with.
Awaiter(kind, samples) == [kind |-> kind, samples |-> samples, load |-> 0, value |-> TRUE]

\* modelLoadedPromise: resolved already, with true, when no load group is
\* active, joined to the group otherwise.
modelLoadedPromise(c, cont) ==
    IF ~c.svc.waiters["load"].active
    THEN [c EXCEPT !.micro = Append(@, cont)]
    ELSE awaitAction(c, "load", [cont EXCEPT !.load = LastLoad(c.svc)])

\* The awaited modelLoadedPromise has resolved.
modelLoadedPromise_then(c, t) ==
    Ret(c, "modelLoadedPromise", t.load, 0, IF t.value THEN "true" ELSE "false", <<>>)

Service_run(c, samples) ==
    IF c.svc.isRunInProgress THEN Ret(c, "run", 0, Len(samples), "results", <<>>)
    ELSE IF c.svc.modelState = "loading"
    THEN modelLoadedPromise(c, Awaiter("run_proceed", samples))
    ELSE IF c.svc.modelState # "loaded" THEN Ret(c, "run", 0, Len(samples), "results", <<>>)
    ELSE Service_run_proceed(c, samples)

\* run(), after its commission settled (lines 258-262).
Service_run_then(c, t) ==
    IF t.how = "resolved"
    THEN LET c1 == set_isRunInProgress(c, FALSE)
         IN  Ret(_notifyWaiters(c1, "run", TRUE), "run", t.rn, t.n, "results", t.results)
    ELSE Ret(c, "run", t.rn, t.n, "rejected", <<>>)

BoolStr(b) == IF b THEN "true" ELSE "false"

\* GenericService._handleWorkerCommission: the commissions the subclass does
\* not route itself (setup-worker, cancel) settle with the message's outcome.
_handleWorkerCommission(c, k, m) ==
    Settle(c, k, m, "resolved",
           [kind |-> IF m.action = "cancel" THEN "cancelRun_then" ELSE "setupWorker_then",
            val |-> BoolStr(m.success)])

handleWorkerResponse(c, m) ==
    LET found == _getCommissionForMessage(c.svc, m) IN
    IF found = {} THEN c
    ELSE LET k == CHOOSE x \in found : TRUE IN
         IF m.action = "load-model"
         THEN Settle(c, k, m, IF m.success THEN "resolved" ELSE "rejected",
                     [kind |-> "loadModel_then", val |-> BoolStr(m.success)])
         ELSE IF m.action = "pause"
         THEN Settle(c, k, m, "resolved",
                     [kind |-> "pauseRun_then", val |-> BoolStr(m.success)])
         ELSE IF m.action = "progress"
         THEN [c EXCEPT !.svc.progress.complete = m.complete]
         ELSE IF m.action = "resume"
         THEN Settle(c, k, m, "resolved",
                     [kind |-> "resumeRun_then", val |-> BoolStr(m.success)])
         ELSE IF m.action = "run"
         THEN Settle(c, k, m, IF m.success THEN "resolved" ELSE "rejected",
                     [kind |-> "run_then", results |-> m.results])
         ELSE _handleWorkerCommission(c, k, m)

\* One microtask: the continuation of an awaiting method.
Continue(c, t) ==
    CASE t.kind = "run_proceed"      ->
             Service_run_proceed(modelLoadedPromise_then(c, t), t.samples)
      [] t.kind = "modelLoaded_then" -> modelLoadedPromise_then(c, t)
      [] t.kind = "run_then"         -> Service_run_then(c, t)
      [] t.kind = "loadModel_then"   -> Service_loadModel_then(c, t)
      [] t.kind = "cancelRun_then"   -> Service_cancelRun_then(c, t)
      [] t.kind = "pauseRun_then"    -> pauseRun_then(c, t)
      [] t.kind = "resumeRun_then"   -> resumeRun_then(c, t)
      [] t.kind = "setupWorker_then" -> setupWorker_then(c, t)

\* The microtask queue is run to the end before the task is over.
RECURSIVE Drain(_)
Drain(c) ==
    IF c.micro = <<>> THEN c
    ELSE Drain(Continue([c EXCEPT !.micro = Tail(@)], Head(c.micro)))

------------------------------------------------------------------------------
(* Worker: onnx.worker.ts *)

NullResult == [success |-> Null, value |-> NoValue]

\* A worker context: the worker's state and the messages the task posted.
WCtx == [RUN |-> RUN, heap |-> heap, awaits |-> awaits, posted |-> <<>>,
         inferred |-> inferred]

\* A message of the worker.  flags is the success array of a progress message;
\* on a run response flags, asked and session only record the success flags,
\* the size of the batch asked for and the presence of a session at the time
\* the response was posted.
Msg(action, rn, success) ==
    [action |-> action, rn |-> rn, success |-> success, results |-> <<>>,
     complete |-> 0, flags |-> <<>>, asked |-> 0, session |-> FALSE]

Post(w, m) == [w EXCEPT !.posted = Append(@, m)]

\* The objects an array of results refers to.
ArrayOf(w) == [i \in 1..Len(w.RUN.results) |-> w.heap[w.RUN.results[i]]]

\* new Array(n).fill({ success: null, value: null }): n references to ONE object.
FillResults(n) ==
    [results |-> [i \in 1..n |-> 1],
     heap |-> IF n = 0 THEN <<>> ELSE <<NullResult>>]

resetRun(w) ==
    [w EXCEPT !.RUN.continue = FALSE,
              !.RUN.results = <<>>,
              !.RUN.sampleIdx = 0,
              !.RUN.samples = <<>>,
              !.heap = <<>>]

Worker_cancelRun(w) ==
    IF w.RUN.session = Null \/ ~w.RUN.continue
    THEN [w |-> w, ok |-> FALSE]
    ELSE [w |-> resetRun(w), ok |-> TRUE]

pause(w) ==
    IF w.RUN.session = Null \/ ~w.RUN.continue
    THEN [w |-> w, ok |-> FALSE]
    ELSE [w |-> [w EXCEPT !.RUN.continue = FALSE], ok |-> TRUE]

\* onmessage, after `await run(data.samples)` (lines 125-139); a call made by
\* resume() (rn = 0) has its result dropped.
RunResult(w, call, result) ==
    IF call.rn = 0 THEN w
    ELSE IF result.isNull
    THEN Post(w, Msg("run", call.rn, FALSE))
    ELSE Post(w, [Msg("run", call.rn, TRUE) EXCEPT
                    !.results = [i \in 1..Len(result.list) |-> result.list[i].value],
                    !.flags = [i \in 1..Len(result.list) |-> result.list[i].success],
                    !.asked = Len(call.samples),
                    !.session = call.session])

\* run(), lines 266-271: hand out the results and reset the run.
RunEnd(w, call) ==
    RunResult(resetRun(w), call, [isNull |-> FALSE, list |-> ArrayOf(w)])

\* run(), the head of the loop (lines 239-249): leave the loop, return the
\* results so far when paused, or start the inference of the next sample.
LoopHead(w, call) ==
    IF w.RUN.sampleIdx < Len(call.samples)
    THEN IF ~w.RUN.continue
         THEN RunResult(w, call, [isNull |-> FALSE, list |-> ArrayOf(w)])
         ELSE [w EXCEPT !.awaits = Append(@, [call EXCEPT !.kind = "infer",
                                                          !.i = w.RUN.sampleIdx]),
                        !.inferred = Append(@, w.RUN.sampleIdx)]
    ELSE RunEnd(w, call)

\* run() returning null when no session is loaded.
Worker_run_NullWithoutSession(w, call) ==
    IF w.RUN.session # Null
    THEN IF w.RUN.sampleIdx = 0
         THEN LET f == FillResults(Len(call.samples))
              IN  LoopHead([w EXCEPT !.RUN.results = f.results,
                                     !.heap = f.heap,
                                     !.RUN.samples = call.samples,
                                     !.inferred = <<>>],
                           call)
         ELSE LoopHead(w, call)
    ELSE RunResult(resetRun(w), call, [isNull |-> TRUE, list |-> <<>>])

Worker_run(w, call) ==
    IF w.RUN.session # Null
    THEN IF w.RUN.sampleIdx = 0
         THEN LET f == FillResults(Len(call.samples))
              IN  LoopHead([w EXCEPT !.RUN.results = f.results,
                                     !.heap = f.heap,
                                     !.RUN.samples = call.samples,
                                     !.inferred = <<>>],
                           call)
         ELSE LoopHead(w, call)
    ELSE RunEnd(w, call)

Call(kind, rn, samples, session) ==
    [kind |-> kind, rn |-> rn, samples |-> samples, i |-> 0, session |-> session]

resume(w) ==
    IF w.RUN.session = Null \/ w.RUN.continue
    THEN [w |-> w, ok |-> FALSE]
    ELSE [w |-> Worker_run([w EXCEPT !.RUN.continue = TRUE],
                           Call("run", 0, <<>>, TRUE)),
          ok |-> TRUE]

\* A handler that answers only when the call succeeded.
Answer_OnlySuccess(r, m) ==
    IF r.ok THEN Post(r.w, Msg(m.action, m.rn, r.ok)) ELSE r.w

\* The handler answers cancel, pause and resume with the outcome of the call.
Answer(r, m) == Post(r.w, Msg(m.action, m.rn, r.ok))

onmessage(w, m) ==
    CASE m.action = "load-model" ->
            [w EXCEPT !.awaits = Append(@, Call("load", m.rn, <<>>, FALSE))]
      [] m.action = "cancel" -> Answer(Worker_cancelRun(w), m)
      [] m.action = "pause" -> Answer(pause(w), m)
      [] m.action = "resume" -> Answer(resume(w), m)
      [] m.action = "run" ->
            Worker_run(w, Call("run", m.rn, m.samples, w.RUN.session # Null))
      [] m.action = "setup-worker" -> Post(w, Msg(m.action, m.rn, TRUE))

\* loadModel reporting success without keeping the session it created.
Worker_loadModel_then_NoSession(w, a, ok) ==
    Post(w, Msg("load-model", a.rn, ok))

\* loadModel, after InferenceSession.create settled, and the handler's answer.
Worker_loadModel_then(w, a, ok) ==
    IF ok THEN Post([w EXCEPT !.RUN.session = "session"], Msg("load-model", a.rn, TRUE))
    ELSE Post(w, Msg("load-model", a.rn, FALSE))

\* run(), after session.run settled (lines 250-263).  When the results were
\* replaced meanwhile and hold no entry i, the assignment throws and the call
\* ends without an answer.
Worker_run_inferred(w, a, ok) ==
    IF a.i + 1 > Len(w.RUN.results) THEN w
    ELSE LET cell == w.RUN.results[a.i + 1]
             w1 == IF ok
                   THEN [w EXCEPT !.heap[cell] =
                            [success |-> "true", value |-> Output(a.samples[a.i + 1])]]
                   ELSE [w EXCEPT !.heap[cell].success = "false"]
             w2 == Post(w1, [Msg("progress", 0, FALSE) EXCEPT
                               !.complete = a.i + 1,
                               !.flags = [i \in 1..Len(w1.RUN.results) |->
                                            w1.heap[w1.RUN.results[i]].success]])
         IN  [w2 EXCEPT !.awaits = Append(@, [a EXCEPT !.kind = "sleep"])]

\* run(), after sleep(10): the loop's increment and its next round.
Worker_run_slept(w, a) ==
    LoopHead([w EXCEPT !.RUN.sampleIdx = @ + 1], a)

Remove(seq, k) == [j \in 1..(Len(seq) - 1) |-> IF j < k THEN seq[j] ELSE seq[j + 1]]

AwaitDone(w, k, ok) ==
    LET a == w.awaits[k]
        w1 == [w EXCEPT !.awaits = Remove(@, k)]
    IN  CASE a.kind = "load"  -> Worker_loadModel_then(w1, a, ok)
          [] a.kind = "infer" -> Worker_run_inferred(w1, a, ok)
          [] a.kind = "sleep" -> Worker_run_slept(w1, a)

------------------------------------------------------------------------------
(* The system *)

Groups == {"init", "load", "pause", "run"}

Task(op, arg) == [op |-> op, arg |-> arg]

\* The constructor: the fields' initial values, then _initWaiters('init') and
\* setupWorker(config).
constructor ==
    LET s == [modelState |-> "not_loaded",
              isRunInProgress |-> FALSE,
              progress |-> [complete |-> 0, target |-> 0],
              waiters |-> [g \in Groups |-> NoGroup],
              commissions |-> {},
              nextRn |-> 1,
              timers |-> 0,
              settles |-> <<>>,
              issued |-> <<>>,
              failedLoad |-> FALSE,
              foreign |-> FALSE]
    IN  setupWorker(_initWaiters(Ctx(s), "init"))

Init ==
    /\ svc = constructor.svc
    /\ rets = <<>>
    /\ toWorker = constructor.sent
    /\ toService = <<>>
    /\ RUN = [continue |-> FALSE, results |-> <<>>, sampleIdx |-> 0,
              samples |-> <<>>, session |-> Null]
    /\ heap = <<>>
    /\ awaits = <<>>
    /\ inferred = <<>>
    /\ task = Task("constructor", 0)

\* The end of a task of the facade: its microtasks are run, then its effects stand.
Commit(c0) ==
    LET c == Drain(c0) IN
    /\ svc' = c.svc
    /\ rets' = c.rets
    /\ toWorker' = toWorker \o c.sent

WorkerCommit(w) ==
    /\ RUN' = w.RUN
    /\ heap' = w.heap
    /\ awaits' = w.awaits
    /\ inferred' = w.inferred
    /\ toService' = toService \o w.posted

workerVars == <<RUN, heap, awaits, inferred>>

\* The caller starts a call while request numbers are left for it and for the
\* run() calls that wait for the model to load.
CanCall == svc.nextRn + Len(svc.waiters["load"].pending) <= MaxRn

CallSetupWorker ==
    /\ CanCall
    /\ task' = Task("setupWorker", 0)
    /\ Commit(setupWorker(Ctx(svc)))
    /\ UNCHANGED <<toService, workerVars>>

CallLoadModel ==
    /\ CanCall
    /\ task' = Task("loadModel", 0)
    /\ Commit(Service_loadModel(Ctx(svc)))
    /\ UNCHANGED <<toService, workerVars>>

\* The caller awaits modelLoadedPromise.
GetModelLoadedPromise ==
    /\ CanCall
    /\ task' = Task("modelLoadedPromise", 0)
    /\ Commit(modelLoadedPromise(Ctx(svc), Awaiter("modelLoaded_then", <<>>)))
    /\ UNCHANGED <<toService, workerVars>>

CallRun ==
    /\ CanCall
    /\ \E n \in 0..MaxSamples :
          /\ task' = Task("run", n)
          /\ Commit(Service_run(Ctx(svc), Batch(n)))
    /\ UNCHANGED <<toService, workerVars>>

CallPauseRun ==
    /\ CanCall
    /\ \E duration \in {0, 1} :
          /\ duration # 0 => svc.timers < MaxTimers
          /\ task' = Task("pauseRun", duration)
          /\ Commit(pauseRun(Ctx(svc), duration))
    /\ UNCHANGED <<toService, workerVars>>

CallResumeRun ==
    /\ CanCall
    /\ task' = Task("resumeRun", 0)
    /\ Commit(resumeRun(Ctx(svc)))
    /\ UNCHANGED <<toService, workerVars>>

CallCancelRun ==
    /\ CanCall
    /\ task' = Task("cancelRun", 0)
    /\ Commit(Service_cancelRun(Ctx(svc)))
    /\ UNCHANGED <<toService, workerVars>>

CallResetProgress ==
    /\ CanCall
    /\ task' = Task("resetProgress", IF svc.isRunInProgress THEN 1 ELSE 0)
    /\ Commit(resetProgress(Ctx(svc)))
    /\ UNCHANGED <<toService, workerVars>>

\* The timeout set by pauseRun(duration) fires.
TimerFires ==
    /\ svc.timers > 0
    /\ task' = Task("timer", 0)
    /\ Commit(resumeRun([Ctx(svc) EXCEPT !.svc.timers = @ - 1]))
    /\ UNCHANGED <<toService, workerVars>>

\* The worker's message reaches the facade's listener.
ServiceReceive ==
    /\ toService # <<>>
    /\ task' = Task("message", Head(toService).rn)
    /\ Commit(handleWorkerResponse(Ctx(svc), Head(toService)))
    /\ toService' = Tail(toService)
    /\ UNCHANGED workerVars

\* The facade's message reaches the worker's onmessage.
WorkerReceive ==
    /\ toWorker # <<>>
    /\ LET w == onmessage(WCtx, Head(toWorker)) IN
          /\ WorkerCommit(w)
          /\ toWorker' = Tail(toWorker)
    /\ UNCHANGED <<svc, rets, task>>

\* An operation the worker awaits settles: the creation of a session, the
\* inference on a sample, or the sleep between two samples.
WorkerAwaitDone ==
    /\ \E k \in 1..Len(awaits), ok \in BOOLEAN :
          /\ awaits[k].kind = "sleep" => ok
          /\ WorkerCommit(AwaitDone(WCtx, k, ok))
    /\ UNCHANGED <<svc, rets, toWorker, task>>

Next ==
    \/ CallSetupWorker
    \/ CallLoadModel
    \/ GetModelLoadedPromise
    \/ CallRun
    \/ CallPauseRun
    \/ CallResumeRun
    \/ CallCancelRun
    \/ CallResetProgress
    \/ TimerFires
    \/ ServiceReceive
    \/ WorkerReceive
    \/ WorkerAwaitDone

Spec == Init /\ [][Next]_vars

\* Every message is handled and every awaited operation settles.
FairSpec ==
    /\ Spec
    /\ WF_vars(ServiceReceive)
    /\ WF_vars(WorkerReceive)
    /\ WF_vars(WorkerAwaitDone)
    /\ WF_vars(TimerFires)

\* The facade with a worker supplied by getWorkerOverride('onnx') in place of
\* onnx.worker: a worker of which only the message protocol is known.  It
\* answers the commissions in the order they were issued, each with either
\* outcome, and while it has a run to answer it reports the progress of the
\* batch.
ProgressMsg(n) == [Msg("progress", 0, FALSE) EXCEPT !.complete = n]

OverrideMessages(s) ==
    {[Msg(k.action, k.rn, ok) EXCEPT !.results = [i \in 1..k.n |-> NoValue]] :
        k \in {x \in s.commissions : \A y \in s.commissions : x.rn <= y.rn},
        ok \in BOOLEAN}
    \cup {ProgressMsg(n) : n \in {i \in 1..MaxSamples :
                                    \E k \in s.commissions : k.action = "run" /\ i <= k.n}}

\* The facade's listener is called with the message m.
Deliver(m) ==
    /\ task' = Task("message", m.rn)
    /\ Commit(handleWorkerResponse(Ctx(svc), m))
    /\ UNCHANGED <<toService, workerVars>>

OverrideWorkerPosts == \E m \in OverrideMessages(svc) : Deliver(m)

FacadeNext ==
    \/ CallSetupWorker
    \/ CallLoadModel
    \/ GetModelLoadedPromise
    \/ CallRun
    \/ CallPauseRun
    \/ CallResumeRun
    \/ CallCancelRun
    \/ CallResetProgress
    \/ TimerFires
    \/ OverrideWorkerPosts

FacadeSpec == Init /\ [][FacadeNext]_vars

------------------------------------------------------------------------------
(* Properties *)

Range(q) == {q[i] : i \in 1..Len(q)}
Last(q) == q[Len(q)]

Pending(rn) == \E k \in svc.commissions : k.rn = rn

\* Nothing is in flight: no message, no awaited operation, no timeout.
Quiet == toWorker = <<>> /\ toService = <<>> /\ awaits = <<>> /\ svc.timers = 0

\* A pending commission is still being worked on: its message waits for the
\* worker, the worker awaits the operation it asked for, or its answer waits
\* for the facade.
InFlight(k) ==
    \/ \E j \in 1..Len(toWorker) : toWorker[j].rn = k.rn /\ toWorker[j].action = k.action
    \/ \E j \in 1..Len(awaits) : awaits[j].rn = k.rn
    \/ \E j \in 1..Len(toService) : toService[j].rn = k.rn /\ toService[j].action = k.action

\* The calls load, run, pause, resume made in this order on a new service.
PauseResumeScenario ==
    svc.issued = <<"setup-worker", "load-model", "run", "pause", "resume">>

\* The run-control commissions issued so far, and whether the last is a pause.
CtlIndices == {i \in 1..Len(svc.issued) : svc.issued[i] \in {"run", "pause", "resume", "cancel"}}
RunPaused ==
    /\ CtlIndices # {}
    /\ \E i \in CtlIndices : svc.issued[i] = "pause" /\ \A j \in CtlIndices : j <= i

ReturnedFalse(op) == <<[op |-> op, rn |-> 0, n |-> 0, val |-> "false", results |-> <<>>]>>

C2_RunInfersEverySample ==
    \A j \in 1..Len(toService) :
        LET m == toService[j] IN
        (/\ m.action = "run" /\ m.session /\ m.asked >= 1
         /\ "pause" \notin Range(svc.issued) /\ "cancel" \notin Range(svc.issued))
        => /\ Len(m.results) = m.asked
           /\ \A i \in 1..Len(m.flags) : m.flags[i] \in {"true", "false"}
           /\ (j = Len(toService) /\ awaits = <<>>)
                 => inferred = [i \in 1..m.asked |-> i - 1]

\* C3: when a batch of N samples was run, paused and resumed and nothing is
\* left in flight, inference has been invoked on every sample of the batch
\* exactly once, in order.
C3_ResumeContinuesBatch ==
    (Quiet /\ PauseResumeScenario /\ RUN.session # Null /\ svc.progress.target >= 1)
    => inferred = [i \in 1..svc.progress.target |-> i - 1]

\* C4: when a batch of N samples was run, paused and resumed and nothing is
\* left in flight, the facade's progress is complete = N, target = N.
C4_ProgressReachesTarget ==
    (Quiet /\ PauseResumeScenario /\ RUN.session # Null /\ svc.progress.target >= 1)
    => svc.progress.complete = svc.progress.target

\* C5: when the worker has answered a cancel that was issued during a run
\* (and has handled no later message), it holds no results and its sample
\* index is 0.
C5_CancelDiscardsBatch ==
    (/\ toService # <<>>
     /\ Last(toService).action = "cancel"
     /\ Last(toService).rn > 1
     /\ svc.issued[Last(toService).rn - 1] = "run")
    => (RUN.results = <<>> /\ RUN.sampleIdx = 0)

\* C6: run([]) returns the empty result and sends no run message: every
\* return of a run() called with no samples is the empty result, no run
\* message or commission for an empty batch exists, and the call returns in
\* the task it is made in unless it waits for a model that is loading.
C6_EmptyRunReturnsEmpty ==
    /\ \A i \in 1..Len(rets) :
          (rets[i].op = "run" /\ rets[i].n = 0)
             => (rets[i].val = "results" /\ rets[i].results = <<>>)
    /\ \A j \in 1..Len(toWorker) : toWorker[j].action = "run" => toWorker[j].samples # <<>>
    /\ \A k \in svc.commissions : k.action = "run" => k.n > 0
    /\ (task.op = "run" /\ task.arg = 0)
          => \/ rets = <<[op |-> "run", rn |-> 0, n |-> 0, val |-> "results", results |-> <<>>]>>
             \/ (svc.modelState = "loading" /\ rets = <<>>)

C6_Witness ==
    /\ task.op = "run" /\ task.arg = 0
    /\ svc.modelState = "loaded" /\ ~svc.isRunInProgress
    /\ rets # <<>>

\* C7: when the worker reports that a model failed to load, loadModel()
\* returns false and modelState becomes error; and from then on, until
\* loadModel() is called again, no task issues a run commission.
C7_FailedLoadBlocksRuns ==
    [][/\ (/\ ServiceReceive
           /\ Head(toService).action = "load-model"
           /\ ~Head(toService).success
           /\ _getCommissionForMessage(svc, Head(toService)) # {})
          => /\ svc'.modelState = "error"
             /\ \E i \in 1..Len(rets') : rets'[i].op = "loadModel" /\ rets'[i].val = "false"
       /\ (svc.failedLoad /\ svc'.failedLoad)
          => \A rn \in svc.nextRn..(svc'.nextRn - 1) : svc'.issued[rn] # "run"
      ]_vars

\* C8: pauseRun() called while no run is in progress returns false and
\* changes nothing of the facade (run flag, model state, progress, waiter
\* groups, commissions, timeouts) and posts no message.
C8_IdlePauseIsNoOp ==
    [][(CallPauseRun /\ ~svc.isRunInProgress)
          => (rets' = ReturnedFalse("pauseRun") /\ svc' = svc /\ toWorker' = toWorker)
      ]_vars

C8_Witness ==
    /\ task.op = "pauseRun"
    /\ rets = ReturnedFalse("pauseRun")
    /\ ~svc.isRunInProgress
    /\ "run" \in Range(svc.issued)

\* C9: resumeRun(), called by the caller or by the timeout of
\* pauseRun(duration) while no run is paused, returns false, issues no
\* commission and leaves the run flag as it is.
C9_ResumeNeedsPausedRun ==
    [][((CallResumeRun \/ TimerFires) /\ ~RunPaused)
          => /\ rets' = ReturnedFalse("resumeRun")
             /\ svc'.nextRn = svc.nextRn
             /\ svc'.isRunInProgress = svc.isRunInProgress
      ]_vars

RunCommissions(s) == {k \in s.commissions : k.action = "run"}

\* The caller has used run() and loadModel() only: no pause, resume or cancel
\* commission has been issued so far.
OnlyRunAndLoad == Range(svc.issued) \subseteq {"setup-worker", "load-model", "run"}

\* C11: as long as the caller uses run() and loadModel() only, no task of the
\* facade (a call or the handling of a response) leaves two run commissions
\* outstanding together: a run() that starts while another one is admitted or
\* waits for the model issues no second run commission.
C11_OneRunCommission ==
    [][OnlyRunAndLoad => Cardinality(RunCommissions(svc')) <= 1]_vars

\* C12: resetProgress() called while a run is in progress sends one cancel
\* commission to the worker and returns with the run flag false and with
\* complete = target = 0.
C12_ResetStopsRun ==
    [][(CallResetProgress /\ svc.isRunInProgress)
          => /\ svc'.issued = Append(svc.issued, "cancel")
             /\ \E k \in svc'.commissions : k.rn = svc.nextRn /\ k.action = "cancel"
             /\ Len(toWorker') = Len(toWorker) + 1
             /\ Last(toWorker').action = "cancel"
             /\ Last(toWorker').rn = svc.nextRn
             /\ ~svc'.isRunInProgress
             /\ svc'.progress = [complete |-> 0, target |-> 0]
      ]_vars

\* resetProgress() has just returned from a call made during a run.
C12_Witness ==
    /\ task = Task("resetProgress", 1)
    /\ Last(svc.issued) = "cancel"
    /\ svc.issued[Len(svc.issued) - 1] = "run"
    /\ ~svc.isRunInProgress
    /\ svc.progress = [complete |-> 0, target |-> 0]

\* modelLoadedPromise has resolved with val; load is the load that was the
\* active phase when the promise was obtained (0: none was).
Resolved(load, val) ==
    [op |-> "modelLoadedPromise", rn |-> load, n |-> 0, val |-> val, results |-> <<>>]

\* C13: modelLoadedPromise obtained while no load phase is active resolves in
\* the same task with true; obtained while a load is the active phase, it
\* resolves only once that load's commission has settled, and with that
\* load's outcome (true: loaded, false: failed), however often loadModel()
\* was called.
C13_ModelLoadedPromiseFollowsLoad ==
    [][/\ (GetModelLoadedPromise /\ ~svc.waiters["load"].active)
          => rets' = <<Resolved(0, "true")>>
       /\ \A i \in 1..Len(rets') :
             (rets'[i].op = "modelLoadedPromise" /\ rets'[i].rn # 0)
                => /\ svc'.settles[rets'[i].rn] >= 1
                   /\ \E j \in 1..Len(rets') :
                         /\ rets'[j].op = "loadModel"
                         /\ rets'[j].rn = rets'[i].rn
                         /\ rets'[j].val = rets'[i].val
      ]_vars

\* The worker is about to handle a run message for a fresh batch of at least
\* one sample, with a session loaded.
FreshRun ==
    /\ toWorker # <<>>
    /\ Head(toWorker).action = "run"
    /\ Len(Head(toWorker).samples) >= 1
    /\ RUN.session # Null
    /\ RUN.sampleIdx = 0

\* C14: when the worker handles a run message for a fresh batch of N >= 1
\* samples with a session loaded, RUN.continue is true at the loop's first
\* check: the task invokes inference on sample 0 and posts no run response.
C14_FreshRunStartsInference ==
    [][(WorkerReceive /\ FreshRun)
          => /\ inferred' = <<0>>
             /\ \E k \in 1..Len(awaits') : awaits'[k].kind = "infer" /\ awaits'[k].i = 0
             /\ toService' = toService
      ]_vars

\* The result array after the outcome ok of sample i (counted from 0) of the
\* current batch has been recorded in it, as lines 250-255 record it.
Recorded(i, ok) ==
    ArrayOf(Worker_run_inferred(WCtx, [Call("infer", 1, RUN.samples, TRUE) EXCEPT !.i = i], ok))

\* C15: the slots of the worker's result array are independent: recording the
\* outcome of sample i changes no entry but entry i.  So in every progress
\* message the flag of a sample not yet processed is none, and in every run
\* response the value of a sample without success is none and the value of a
\* successful sample is that sample's own output.
C15_SlotsIndependent ==
    /\ \A i \in 1..Len(RUN.results), ok \in BOOLEAN :
          \A j \in 1..Len(RUN.results) :
             j # i => Recorded(i - 1, ok)[j] = ArrayOf(WCtx)[j]
    /\ \A k \in 1..Len(toService) :
          LET m == toService[k] IN
          /\ m.action = "progress"
                => \A i \in (m.complete + 1)..Len(m.flags) : m.flags[i] = Null
          /\ m.action = "run"
                => \A i \in 1..Len(m.results) :
                      m.results[i] = IF m.flags[i] = "true" THEN Output(i) ELSE NoValue

\* The changes of modelState a load may make.
LoadSteps ==
    {<<"not_loaded", "loading">>, <<"loading", "loaded">>, <<"loading", "error">>,
     <<"loaded", "loading">>, <<"error", "loading">>}

\* C17: modelState changes only from not_loaded, loaded or error to loading
\* and from loading to loaded or error, whatever the order of loadModel()
\* calls and load-model responses; it never returns to not_loaded and never
\* passes between loaded and error without loading in between.
C17_ModelStateSteps ==
    [][svc'.modelState # svc.modelState
          => <<svc.modelState, svc'.modelState>> \in LoadSteps]_vars

\* The load-model commissions that are outstanding in the facade s.
LoadCommissions(s) == {k \in s.commissions : k.action = "load-model"}

\* C18: loadModel() called while an earlier load is the active phase is
\* refused: it issues no commission, posts no message and leaves the load
\* group and its waiters as they are; so no task leaves two load-model
\* commissions outstanding together.
C18_NoOverlappingLoads ==
    [][/\ (CallLoadModel /\ svc.waiters["load"].active)
          => /\ svc'.nextRn = svc.nextRn
             /\ svc'.commissions = svc.commissions
             /\ svc'.waiters = svc.waiters
             /\ toWorker' = toWorker
       /\ Cardinality(LoadCommissions(svc')) <= 1
      ]_vars

\* The request numbers of the run commissions a step issues.
RunsIssued == {rn \in svc.nextRn..(svc'.nextRn - 1) : svc'.issued[rn] = "run"}

\* The run() calls that wait for the model to load.
WaitingRuns ==
    {k \in 1..Len(svc.waiters["load"].pending) :
        svc.waiters["load"].pending[k].kind = "run_proceed"}

\* C19: a task issues a run commission only while modelState is loaded: a
\* run() that waited for a load goes on to the worker only if that load
\* succeeded; when the load failed, every waiting call returns [] and no run
\* commission is issued.
C19_RunNeedsLoadedModel ==
    [][/\ RunsIssued # {} => (svc.modelState = "loaded" \/ svc'.modelState = "loaded")
       /\ (\E i \in 1..Len(rets') : rets'[i].op = "loadModel" /\ rets'[i].val = "false")
             => /\ RunsIssued = {}
                /\ Cardinality({i \in 1..Len(rets') :
                                   /\ rets'[i].op = "run"
                                   /\ rets'[i].rn = 0
                                   /\ rets'[i].results = <<>>})
                      = Cardinality(WaitingRuns)
      ]_vars

\* A progress message reporting n samples has been taken in by the facade.
ProgressTaken(n) ==
    /\ svc'.progress.complete = n
    /\ svc'.progress.target = svc.progress.target
    /\ svc'.commissions = svc.commissions
    /\ svc'.settles = svc.settles
    /\ rets' = <<>>

\* C20: a progress message, which carries no request number, sets the
\* facade's complete to the number of samples it reports, leaves target as
\* it is and settles no commission, whichever worker posts it.
C20_ProgressSetsComplete ==
    [][/\ (ServiceReceive /\ Head(toService).action = "progress")
          => ProgressTaken(Head(toService).complete)
       /\ \A n \in 1..MaxSamples : Deliver(ProgressMsg(n)) => ProgressTaken(n)
      ]_vars

\* The cancel commission rn was issued while the run was paused: the run-control
\* commission issued last before it is a pause.
CancelOfPausedRun(rn) ==
    /\ rn \in 1..Len(svc.issued)
    /\ svc.issued[rn] = "cancel"
    /\ \E i \in 1..(rn - 1) :
          /\ svc.issued[i] = "pause"
          /\ \A j \in (i + 1)..(rn - 1) : j \notin CtlIndices

\* A run was started and then paused, and nothing else was asked of it since.
PausedAfterRun ==
    /\ RunPaused
    /\ \E i \in CtlIndices :
          /\ svc.issued[i] = "run"
          /\ Cardinality({j \in CtlIndices : j > i}) = 1

\* C21: cancelRun() called while a run is paused issues a cancel commission
\* and posts the cancel message; the worker answers that cancel with success,
\* having discarded the stored batch, and when the answer has been handled
\* the facade's progress is 0.
C21_CancelWhilePaused ==
    [][/\ (CallCancelRun /\ PausedAfterRun)
          => /\ svc'.issued = Append(svc.issued, "cancel")
             /\ Len(toWorker') = Len(toWorker) + 1
             /\ Last(toWorker').action = "cancel"
       /\ (/\ ServiceReceive
           /\ Head(toService).action = "cancel"
           /\ CancelOfPausedRun(Head(toService).rn))
          => /\ Head(toService).success
             /\ RUN.results = <<>> /\ RUN.samples = <<>>
             /\ svc'.progress = [complete |-> 0, target |-> 0]
      ]_vars

\* C23: when InferenceSession.create fails for a load-model message, the
\* worker answers that message with success = false and holds no session
\* afterwards, whether or not an earlier load had left one.
C23_FailedLoadLeavesNoSession ==
    [][\A k \in 1..Len(awaits) :
          (awaits[k].kind = "load" /\ WorkerCommit(AwaitDone(WCtx, k, FALSE)))
             => /\ toService' = Append(toService, Msg("load-model", awaits[k].rn, FALSE))
                /\ RUN'.session = Null
      ]_vars

\* C24: the run flag returns to idle.  When the caller has stopped calling and
\* every message, awaited operation and timeout has been handled, nothing
\* but a new call can change the facade; so in every such state
\* isRunInProgress is false.
C24_RunFlagReturnsToIdle == Quiet => ~svc.isRunInProgress

C26_LoadedImpliesSession == svc.modelState = "loaded" => RUN.session # Null

\* The model is loaded after two loads of which one failed.
C26_Witness ==
    /\ svc.modelState = "loaded"
    /\ RUN.session # Null
    /\ Cardinality({i \in 1..Len(svc.issued) : svc.issued[i] = "load-model"}) >= 2
    /\ LoadCommissions(svc) = {}
    /\ svc.failedLoad

====
